---- MODULE Spec2Model ----
(***************************************************************************)
(* Native messaging host of reverse_api (src/reverse_api/native_host.py):  *)
(* the framing codec (read_message / send_message), the dispatch loop      *)
(* (run_host), the handlers of NativeHostHandler and the two coroutines    *)
(* (_generate_async, _chat_async_streaming) they drive to completion.      *)
(*                                                                         *)
(* Representation.                                                         *)
(*  - A byte stream is a sequence of naturals.  The four length bytes of a *)
(*    frame are real byte values; a payload byte is the index of a JSON    *)
(*    token in Alphabet (one token stands for the UTF-8 bytes of that      *)
(*    token together with its separator).  A byte that indexes no token is *)
(*    undecodable.                                                         *)
(*  - A Python value is a record [t, v]: t is the Python type, v the       *)
(*    content.  A str is the sequence of its pieces (a piece is a character*)
(*    or a protocol word), a dict is the sequence of its <<key, value>>    *)
(*    pairs in insertion order, a list the sequence of its elements.       *)
(*  - stdout holds the bytes written since the current iteration of the   *)
(*    loop of run_host began (everything older has been consumed by the    *)
(*    extension); message, produced and lastRead are per iteration too.    *)
(***************************************************************************)
EXTENDS Integers, Sequences, FiniteSets, TLC

\* ------------------------------------------------------------------------
\* Python values
\* ------------------------------------------------------------------------
None == [t |-> "NoneType", v |-> <<>>]

True == [t |-> "bool", v |-> <<"true">>]

False == [t |-> "bool", v |-> <<"false">>]

Num(n) == [t |-> "int", v |-> <<n>>]

Str(s) == [t |-> "str", v |-> s]

\* a str made of one protocol word
W(w) == [t |-> "str", v |-> <<w>>]

List(elems) == [t |-> "list", v |-> elems]

Dict(pairs) == [t |-> "dict", v |-> pairs]

\* a float, by the text repr gives it
Float(text) == [t |-> "float", v |-> <<text>>]

Tuple(elems) == [t |-> "tuple", v |-> elems]

\* a dict whose keys are ints; each item holds the decimal text of its key
IntKeyDict(pairs) == [t |-> "intkeydict", v |-> pairs]

\* Python truthiness (bool(x)), used by "not x" and "x or y"
Truthy(x) ==
    CASE x.t = "NoneType" -> FALSE
      [] x.t = "bool" -> x.v = <<"true">>
      [] x.t = "int" -> x.v # <<"0">>
      [] OTHER -> x.v # <<>>

\* x or y
Or(x, y) == IF Truthy(x) THEN x ELSE y

\* a dict item whose key is the one-word str k
P(k, x) == << <<k>>, x >>

\* k in d, for the one-word key k
HasKey(d, k) == \E i \in 1..Len(d.v) : d.v[i][1] = <<k>>

\* dict.get(k): the value stored under k, None when the key is missing
Get(d, k) ==
    IF HasKey(d, k)
    THEN d.v[CHOOSE i \in 1..Len(d.v) : d.v[i][1] = <<k>>][2]
    ELSE None

\* dict.get(k, ""): the value stored under k, "" when the key is missing
GetOrEmpty(d, k) == IF HasKey(d, k) THEN Get(d, k) ELSE Str(<<>>)

\* x == "w" for a Python value x and a one-word str
IsWord(x, w) == x.t = "str" /\ x.v = <<w>>

\* str(x) as pieces, for the values the host formats into a message
str(x) ==
    CASE x.t = "NoneType" -> <<"None">>
      [] x.t = "str" -> x.v
      [] x.t = "int" -> x.v
      [] x.t = "bool" -> IF x.v = <<"true">> THEN <<"True">> ELSE <<"False">>
      [] x.t = "list" -> <<"[", "]">>
      [] x.t = "dict" -> <<"{", "}">>

\* d[k] = x on a dict: replaces the value in place, or appends the key
SetItem(pairs, k, x) ==
    IF \E i \in 1..Len(pairs) : pairs[i][1] = k
    THEN [i \in 1..Len(pairs) |-> IF pairs[i][1] = k THEN <<k, x>> ELSE pairs[i]]
    ELSE Append(pairs, <<k, x>>)

\* ------------------------------------------------------------------------
\* Bytes and tokens
\* ------------------------------------------------------------------------
QUOTE == "\""

NumberTokens == {"0", "1", "2", "3", "7", "10", "30", "100"}

FloatTokens == {"0.0", "7.5"}

\* every JSON token the model reads or writes; a payload byte is an index
Alphabet ==
    << "{", "}", "[", "]", QUOTE, "null", "true", "false",
       "0", "10", "30", "100", "7",
       "type", "_callbackId", "run_id", "har", "message", "model",
       "status", "saveHar", "generate", "chat", "bogus",
       "xyz", "r1", "r2", "log", "hi",
       "connected", "version", "<version>", "config_path", "<config_path>",
       "complete", "error", "progress", "agent_event", "chat_response",
       "path", "script_path", "retryable", "percent",
       "event_type", "content", "tool_name", "tool_input", "is_error",
       "output", "cost", "duration_ms",
       "text", "thinking", "tool_use", "tool_result", "done",
       "har/", "scripts/", "/recording.har",
       "Missing run_id or har data",
       "No run_id provided and no current session",
       "HAR file not found: ",
       "No message provided",
       "No active session. Please capture traffic first.",
       "No HAR file found. Please capture traffic first.",
       "Unknown message type: ", "None", "True", "False",
       "Analyzing HAR file...", "Generating API client with Claude...",
       "Generation complete",
       "Task completed.", "I've processed your request.",
       "JSONDecodeError", "UnicodeDecodeError",
       "' object has no attribute 'get'", "'",
       "NoneType", "bool", "int", "str", "list", "dict",
       "unhashable type: '",
       "OSError", "ImportError", "EngineerError", "EngineError", "SessionError", "AgentError", "SetupError",
       "Tool", "Bash", "Read", "Write", "Glob", "Grep", "Edit",
       "command", "file_path", "pattern", "content_length", "content_preview",
       "old_string", "ls", "a", "b", "...", "1", "2", "3" >>

\* the byte that stands for each token
Codes == [tok \in {Alphabet[i] : i \in 1..Len(Alphabet)} |->
             CHOOSE i \in 1..Len(Alphabet) : Alphabet[i] = tok]

Code(tok) == Codes[tok]

\* str.encode("utf-8") of a token sequence
Encode(toks) == [i \in 1..Len(toks) |-> Code(toks[i])]

Decodable(bytes) == \A i \in 1..Len(bytes) : bytes[i] \in 1..Len(Alphabet)

\* bytes.decode("utf-8"), defined on decodable bytes
Decode(bytes) == [i \in 1..Len(bytes) |-> Alphabet[bytes[i]]]

Take(s, n) == SubSeq(s, 1, IF n < Len(s) THEN n ELSE Len(s))

Drop(s, n) == SubSeq(s, n + 1, Len(s))

\* struct.pack("<I", n)
pack(n) == << n % 256, (n \div 256) % 256, (n \div 65536) % 256, (n \div 16777216) % 256 >>

\* the length read with the most significant byte first
unpack_big_endian(b) == b[4] + 256 * b[3] + 65536 * b[2] + 16777216 * b[1]

\* struct.unpack("<I", b)[0]
unpack(b) == b[1] + 256 * b[2] + 65536 * b[3] + 16777216 * b[4]

\* ------------------------------------------------------------------------
\* JSON
\* ------------------------------------------------------------------------
RECURSIVE json_dumps_tokens(_)
RECURSIVE DumpElems(_, _)
RECURSIVE DumpPairs(_, _)

DumpElems(elems, i) ==
    IF i > Len(elems) THEN <<>>
    ELSE json_dumps_tokens(elems[i]) \o DumpElems(elems, i + 1)

DumpPairs(pairs, i) ==
    IF i > Len(pairs) THEN <<>>
    ELSE <<QUOTE>> \o pairs[i][1] \o <<QUOTE>>
         \o json_dumps_tokens(pairs[i][2]) \o DumpPairs(pairs, i + 1)

\* the text json.dumps produces, as tokens
json_dumps_tokens(x) ==
    CASE x.t = "NoneType" -> <<"null">>
      [] x.t = "bool" -> x.v
      [] x.t = "int" -> x.v
      [] x.t = "float" -> x.v
      [] x.t = "str" -> <<QUOTE>> \o x.v \o <<QUOTE>>
      [] x.t \in {"list", "tuple"} -> <<"[">> \o DumpElems(x.v, 1) \o <<"]">>
      [] x.t \in {"dict", "intkeydict"} -> <<"{">> \o DumpPairs(x.v, 1) \o <<"}">>

ParseFail == [ok |-> FALSE, val |-> None, next |-> 0]

ParseOk(x, n) == [ok |-> TRUE, val |-> x, next |-> n]

RECURSIVE ParseValue(_, _)
RECURSIVE ParseElems(_, _, _)
RECURSIVE ParseMembers(_, _, _)

\* the elements of an array up to its closing bracket
ParseElems(toks, i, acc) ==
    IF i > Len(toks) THEN ParseFail
    ELSE IF toks[i] = "]" THEN ParseOk(List(acc), i + 1)
    ELSE LET e == ParseValue(toks, i)
         IN  IF e.ok THEN ParseElems(toks, e.next, Append(acc, e.val)) ELSE ParseFail

\* the members of an object up to its closing brace; a repeated key keeps
\* its first position and takes the last value, as a Python dict does
ParseMembers(toks, i, acc) ==
    IF i > Len(toks) THEN ParseFail
    ELSE IF toks[i] = "}" THEN ParseOk(Dict(acc), i + 1)
    ELSE LET k == ParseValue(toks, i)
         IN  IF k.ok /\ k.val.t = "str"
             THEN LET x == ParseValue(toks, k.next)
                  IN  IF x.ok
                      THEN ParseMembers(toks, x.next, SetItem(acc, k.val.v, x.val))
                      ELSE ParseFail
             ELSE ParseFail

\* the index of the first quote at or after j, 0 when the string never ends
ClosingQuote(toks, j) ==
    LET quotes == {k \in j..Len(toks) : toks[k] = QUOTE}
    IN  IF quotes = {} THEN 0
        ELSE CHOOSE k \in quotes : \A other \in quotes : k <= other

\* one JSON value starting at token i
ParseValue(toks, i) ==
    IF i > Len(toks) THEN ParseFail
    ELSE CASE toks[i] = QUOTE ->
                LET j == ClosingQuote(toks, i + 1)
                IN  IF j = 0 THEN ParseFail
                    ELSE ParseOk(Str(SubSeq(toks, i + 1, j - 1)), j + 1)
           [] toks[i] = "{" -> ParseMembers(toks, i + 1, <<>>)
           [] toks[i] = "[" -> ParseElems(toks, i + 1, <<>>)
           [] toks[i] = "null" -> ParseOk(None, i + 1)
           [] toks[i] = "true" -> ParseOk(True, i + 1)
           [] toks[i] = "false" -> ParseOk(False, i + 1)
           [] toks[i] \in NumberTokens -> ParseOk(Num(toks[i]), i + 1)
           [] toks[i] \in FloatTokens -> ParseOk(Float(toks[i]), i + 1)
           [] OTHER -> ParseFail

\* json.dumps(x).encode("utf-8")
json_dumps(x) == Encode(json_dumps_tokens(x))

\* json.loads(bytes.decode("utf-8")): [exc, val]; exc is "" when it returns
json_loads(bytes) ==
    IF ~Decodable(bytes) THEN [exc |-> "UnicodeDecodeError", val |-> None]
    ELSE LET r == ParseValue(Decode(bytes), 1)
         IN  IF r.ok /\ r.next = Len(bytes) + 1
             THEN [exc |-> "", val |-> r.val]
             ELSE [exc |-> "JSONDecodeError", val |-> None]

\* ------------------------------------------------------------------------
\* Framing codec
\* ------------------------------------------------------------------------
\* read_message without the test of the payload length (lines 299-300)
read_message_unchecked(avail) ==
    LET raw_length == Take(avail, 4)
    IN  IF Len(raw_length) < 4
        THEN [eof |-> TRUE, exc |-> "", val |-> None, used |-> Len(raw_length)]
        ELSE LET message_length == unpack(raw_length)
                 message_bytes == Take(Drop(avail, 4), message_length)
                 parsed == json_loads(message_bytes)
             IN  [eof |-> FALSE, exc |-> parsed.exc, val |-> parsed.val,
                  used |-> 4 + Len(message_bytes)]

\* read_message on the bytes that remain readable before end of input:
\* [eof, exc, val, used]; eof is the None it returns for a short read
read_message_on(avail) ==
    LET raw_length == Take(avail, 4)
    IN  IF Len(raw_length) < 4
        THEN [eof |-> TRUE, exc |-> "", val |-> None, used |-> Len(raw_length)]
        ELSE LET message_length == unpack(raw_length)
                 message_bytes == Take(Drop(avail, 4), message_length)
                 parsed == json_loads(message_bytes)
             IN  IF Len(message_bytes) < message_length
                 THEN [eof |-> TRUE, exc |-> "", val |-> None,
                       used |-> 4 + Len(message_bytes)]
                 ELSE [eof |-> FALSE, exc |-> parsed.exc, val |-> parsed.val,
                       used |-> 4 + message_length]

\* send_message with the four bytes of the prefix counted into the length
send_message_length_with_prefix(message) ==
    LET encoded == json_dumps(message)
    IN  pack(Len(encoded) + 4) \o encoded

\* the bytes one send_message call writes and flushes
send_message_bytes(message) ==
    LET encoded == json_dumps(message)
    IN  pack(Len(encoded)) \o encoded

\* ------------------------------------------------------------------------
\* Bounds and inputs
\* ------------------------------------------------------------------------
\* blocks and messages one chat run receives from the agent at most
MaxEvents == 2

Runs == {<<"r1">>, <<"r2">>}

\* zero or one dict item under key k, for each optional value
Opt(k, xs) == IF xs = <<>> THEN <<>> ELSE <<P(k, xs[1])>>

CallbackChoices == {<<>>, <<W("xyz")>>}

RunIdChoices == {<<>>, <<Str(<<>>)>>, <<W("r1")>>, <<W("r2")>>}

HarChoices == {<<>>, <<Dict(<<P("log", Dict(<<>>))>>)>>}

UserMessageChoices == {<<>>, <<W("hi")>>}

\* the request objects the extension may send
Requests ==
    { Dict(Opt("type", <<W("status")>>) \o Opt("_callbackId", cb)) :
        cb \in CallbackChoices }
    \cup { Dict(Opt("type", ty) \o Opt("_callbackId", cb)) :
        ty \in {<<>>, <<W("bogus")>>, <<List(<<>>)>>}, cb \in CallbackChoices }
    \cup { Dict(Opt("type", <<W("saveHar")>>) \o Opt("run_id", r)
                \o Opt("har", h) \o Opt("_callbackId", cb)) :
        r \in RunIdChoices, h \in HarChoices, cb \in CallbackChoices }
    \cup { Dict(Opt("type", <<W("generate")>>) \o Opt("run_id", r)
                \o Opt("_callbackId", cb)) :
        r \in RunIdChoices, cb \in CallbackChoices }
    \cup { Dict(Opt("type", <<W("chat")>>) \o Opt("message", u)
                \o Opt("run_id", r) \o Opt("_callbackId", cb)) :
        u \in UserMessageChoices, r \in RunIdChoices, cb \in CallbackChoices }

\* JSON documents that are not objects
NonObjects == {None, True, Num("7"), W("hi"), List(<<>>)}

\* payloads json.loads rejects: empty, an unclosed object, a byte that is no text
InvalidPayloads == {<<>>, Encode(<<"{", QUOTE, "type", QUOTE>>), <<200>>}

InputPayloads ==
    {json_dumps(x) : x \in Requests \cup NonObjects} \cup InvalidPayloads

\* a whole frame as the extension writes it
Frame(payload) == pack(Len(payload)) \o payload

CompleteFrames == {Frame(p) : p \in InputPayloads}

\* what is left on stdin when it closes: nothing, or the start of a frame
Tails ==
    {<<>>} \cup
    { Take(f, k) : k \in {1, 3, 4, 5},
                   f \in {Frame(json_dumps(Dict(<<P("type", W("status"))>>)))} }

\* ------------------------------------------------------------------------
\* What the agent SDK yields to _chat_async_streaming
\* ------------------------------------------------------------------------
Block(b, text, name, input, is_error) ==
    [b |-> b, text |-> text, name |-> name, input |-> input, is_error |-> is_error]

TextBlock(text) == Block("TextBlock", text, "", None, None)

ThinkingBlock(thinking) == Block("ThinkingBlock", thinking, "", None, None)

ToolUseBlock(name, input) == Block("ToolUseBlock", <<>>, name, input, None)

ToolResultBlock(content, is_error) == Block("ToolResultBlock", content, "", None, is_error)

\* a content block of a class the host has no branch for
OtherBlock == Block("OtherBlock", <<>>, "", None, None)

ResultMessage(is_error) == Block("ResultMessage", <<>>, "", None, is_error)

Blocks ==
    { TextBlock(<<"a">>), TextBlock(<<"b">>), ThinkingBlock(<<"a">>),
      ToolUseBlock("Bash", Dict(<<P("command", W("ls"))>>)),
      ToolResultBlock(<<"a">>, None), OtherBlock }

\* the block classes that are events of the agent
EventBlocks == {"TextBlock", "ThinkingBlock", "ToolUseBlock", "ToolResultBlock"}

\* the content lists of at most n blocks an AssistantMessage may carry
Contents(n) == UNION { [1..k -> Blocks] : k \in 1..n }

\* ------------------------------------------------------------------------
\* State
\* ------------------------------------------------------------------------
VARIABLES
    pc,             \* where run_host is: "loop" (top of while True), "read",
                    \* "dispatch", "run_async", "closed" (after break)
    message,        \* run_host's local variable message
    current_run_id, \* NativeHostHandler.current_run_id
    store,          \* the run ids whose recording.har exists on disk
    co,             \* the coroutine handed to _run_async
    produced,       \* the events the agent produced in this iteration
    stdout,         \* bytes written to sys.stdout.buffer in this iteration
    arrived,        \* a whole frame is waiting unread on stdin
    stdinClosed,    \* the extension has closed stdin
    lastRead,       \* the bytes read_message consumed in this iteration
    usage_metadata, \* Collector.usage_metadata
    actions,        \* ActionRecorder.actions of the recorder in use
    files,          \* the text of each file the recorder saves to or loads
    call_result     \* what the last get_actions or load call returned

\* the objects the native host has no reference to
others == << usage_metadata, actions, files, call_result >>

vars == << pc, message, current_run_id, store, co, produced, stdout,
           arrived, stdinClosed, lastRead, others >>

\* no Collector and no ActionRecorder has been constructed
NoOthers ==
    /\ usage_metadata = <<>>
    /\ actions = <<>>
    /\ files = <<>>
    /\ call_result = <<>>

\* no coroutine.  state: "none", "generate_await" and "chat_stream" (suspended
\* on the engine or the agent), "done" (finished, result or exc set),
\* "returned" (its result has been handed to the handler); outcome records
\* how the external operation ended
NoCo ==
    [ state |-> "none", kind |-> "", run_id |-> None, msg |-> None,
      exc |-> "", result |-> None, final_text |-> <<>>,
      last_tool_name |-> None, received |-> 0, outcome |-> "" ]

\* NativeHostHandler.__init__ and the entry of run_host
Init ==
    /\ NoOthers
    /\ pc = "loop"
    /\ message = None
    /\ current_run_id = None
    /\ store \in SUBSET Runs
    /\ co = NoCo
    /\ produced = <<>>
    /\ stdout = <<>>
    /\ arrived = FALSE
    /\ stdinClosed = FALSE
    /\ lastRead = <<>>

\* ------------------------------------------------------------------------
\* Responses
\* ------------------------------------------------------------------------
\* get_har_dir(run_id) / "recording.har", as str
har_path(run_id) == Str(<<"har/">> \o run_id.v \o <<"/recording.har">>)

\* str(get_scripts_dir(run_id))
scripts_dir(run_id) == Str(<<"scripts/">> \o run_id.v)

\* the error dict every handler builds: type, message, _callbackId
handler_error(m, text) ==
    Dict(<< P("type", W("error")), P("message", Str(text)),
            P("_callbackId", Get(m, "_callbackId")) >>)

\* the error dict of handle_generate and _generate_async, with retryable
retryable_error(m, text) ==
    Dict(<< P("type", W("error")), P("message", Str(text)),
            P("retryable", True), P("_callbackId", Get(m, "_callbackId")) >>)

\* the error dict of the except clause with the retryable entry of the
\* generate handler's error copied into it
loop_error_retryable(text) ==
    Dict(<< P("type", W("error")), P("message", Str(text)), P("retryable", True) >>)

\* the error dict run_host builds in its except clause
loop_error(text) ==
    Dict(<< P("type", W("error")), P("message", Str(text)) >>)

\* a progress frame that reports completion whatever percent it is given
progress_always_complete(text, percent) ==
    Dict(<< P("type", W("progress")), P("message", W(text)),
            P("percent", Num("100")) >>)

\* the progress dict _generate_async sends (lines 419-425, 450-456, 462-468)
progress(text, percent) ==
    Dict(<< P("type", W("progress")), P("message", W(text)),
            P("percent", Num(percent)) >>)

\* run_host lines 758-759 once the handler has returned response
Respond(response) ==
    /\ stdout' = stdout \o send_message_bytes(response)
    /\ pc' = "loop"

\* run_host's except clause for an exception described by text
LoopExcept(text) ==
    /\ stdout' = stdout \o send_message_bytes(loop_error(text))
    /\ pc' = "loop"

\* ------------------------------------------------------------------------
\* The extension
\* ------------------------------------------------------------------------
\* the extension writes one more frame to the host's stdin
ExtensionSend ==
    /\ ~arrived
    /\ ~stdinClosed
    /\ arrived' = TRUE
    /\ UNCHANGED << others, pc, message, current_run_id, store, co, produced, stdout,
                    stdinClosed, lastRead >>

\* the extension closes the host's stdin
ExtensionClose ==
    /\ ~stdinClosed
    /\ stdinClosed' = TRUE
    /\ UNCHANGED << others, pc, message, current_run_id, store, co, produced, stdout,
                    arrived, lastRead >>

\* ------------------------------------------------------------------------
\* run_host: reading
\* ------------------------------------------------------------------------
\* the next iteration of while True begins
LoopTop ==
    /\ pc = "loop"
    /\ pc' = "read"
    /\ message' = None
    /\ produced' = <<>>
    /\ stdout' = <<>>
    /\ lastRead' = <<>>
    /\ co' = IF co.state = "returned" THEN NoCo ELSE co
    /\ UNCHANGED << others, current_run_id, store, arrived, stdinClosed >>

\* lines 753-756 and 761-768 for a read_message call that finds avail on stdin
run_host_read(avail) ==
    LET r == read_message_on(avail)
    IN  /\ pc = "read"
        /\ lastRead' = Take(avail, r.used)
        /\ IF r.exc # ""
           THEN /\ LoopExcept(<<r.exc>>)
                /\ UNCHANGED message
           ELSE /\ UNCHANGED stdout
                /\ message' = r.val
                /\ pc' = IF r.eof \/ r.val.t = "NoneType" THEN "closed" ELSE "dispatch"
        /\ UNCHANGED << others, current_run_id, store, co, produced, stdinClosed >>

\* read_message is called with a whole frame waiting
ReadFrame(frame) ==
    /\ arrived
    /\ arrived' = FALSE
    /\ run_host_read(frame)

\* read_message is called when stdin has closed after tail
ReadTail(tail) ==
    /\ ~arrived
    /\ stdinClosed
    /\ UNCHANGED arrived
    /\ run_host_read(tail)

\* ------------------------------------------------------------------------
\* handle_message and the synchronous handlers
\* ------------------------------------------------------------------------
\* which way handle_message goes for message m
handle_message(m) ==
    IF m.t # "dict" THEN "AttributeError"
    ELSE LET msg_type == Get(m, "type")
         IN  IF msg_type.t \in {"list", "dict"} THEN "TypeError"
             ELSE IF IsWord(msg_type, "status") THEN "handle_status"
             ELSE IF IsWord(msg_type, "saveHar") THEN "handle_save_har"
             ELSE IF IsWord(msg_type, "generate") THEN "handle_generate"
             ELSE IF IsWord(msg_type, "chat") THEN "handle_chat"
             ELSE "unknown"

handle_status(m) ==
    Dict(<< P("type", W("status")), P("connected", True),
            P("version", W("<version>")), P("config_path", W("<config_path>")),
            P("_callbackId", Get(m, "_callbackId")) >>)

HandleStatus ==
    /\ pc = "dispatch"
    /\ handle_message(message) = "handle_status"
    /\ Respond(handle_status(message))
    /\ UNCHANGED << others, message, current_run_id, store, co, produced,
                    arrived, stdinClosed, lastRead >>

\* no handler is registered for the type
HandleUnknown ==
    /\ pc = "dispatch"
    /\ handle_message(message) = "unknown"
    /\ Respond(handler_error(message,
                  <<"Unknown message type: ">> \o str(Get(message, "type"))))
    /\ UNCHANGED << others, message, current_run_id, store, co, produced,
                    arrived, stdinClosed, lastRead >>

\* handle_message itself raises: message.get on a value that is no dict,
\* or handlers.get on an unhashable type
HandleRaises ==
    /\ pc = "dispatch"
    /\ \/ /\ handle_message(message) = "AttributeError"
          /\ LoopExcept(<<"'", message.t, "' object has no attribute 'get'">>)
       \/ /\ handle_message(message) = "TypeError"
          /\ LoopExcept(<<"unhashable type: '", Get(message, "type").t, "'">>)
    /\ UNCHANGED << others, message, current_run_id, store, co, produced,
                    arrived, stdinClosed, lastRead >>

\* handle_save_har; fs is how the file system answers mkdir and write_text
HandleSaveHar(fs) ==
    /\ pc = "dispatch"
    /\ handle_message(message) = "handle_save_har"
    /\ LET run_id == Get(message, "run_id")
           har_data == Get(message, "har")
       IN  IF ~Truthy(run_id) \/ ~Truthy(har_data)
           THEN /\ Respond(handler_error(message, <<"Missing run_id or har data">>))
                /\ UNCHANGED << others, current_run_id, store >>
           ELSE IF fs = "ok"
           THEN /\ store' = store \cup {run_id.v}
                /\ current_run_id' = run_id
                /\ Respond(Dict(<< P("type", W("complete")),
                                   P("path", har_path(run_id)),
                                   P("_callbackId", Get(message, "_callbackId")) >>))
           ELSE /\ Respond(handler_error(message, <<fs>>))
                /\ UNCHANGED << others, current_run_id, store >>
    /\ UNCHANGED << others, message, co, produced, arrived, stdinClosed, lastRead >>

\* ------------------------------------------------------------------------
\* Abbreviation of streamed payloads
\* ------------------------------------------------------------------------
ThinkingLimit == 500

ToolResultLimit == 500

CommandLimit == 200

PreviewLimit == 100

OldStringLimit == 50

\* s[:n] + "..." if len(s) > n else s
abbreviate(s, n) == IF Len(s) > n THEN Take(s, n) \o <<"...">> ELSE s

\* the output field of a tool_result event (lines 637-647)
tool_result_output(content) ==
    LET output == IF Truthy(Str(content)) THEN Take(content, ToolResultLimit) ELSE <<>>
    IN  IF Len(output) >= ToolResultLimit THEN output \o <<"...">> ELSE output

RECURSIVE summarize_items(_, _)

\* the generic branch of _summarize_tool_input from item i on
summarize_items(pairs, i) ==
    IF i > Len(pairs) THEN <<>>
    ELSE LET value == pairs[i][2]
         IN  << << pairs[i][1],
                   IF value.t = "str" /\ Len(value.v) > PreviewLimit
                   THEN Str(Take(value.v, PreviewLimit) \o <<"...">>)
                   ELSE value >> >>
             \o summarize_items(pairs, i + 1)

_summarize_tool_input(tool_name, input_data) ==
    CASE tool_name = "Read" ->
            Dict(<< P("file_path", GetOrEmpty(input_data, "file_path")) >>)
      [] tool_name = "Write" ->
            LET content == GetOrEmpty(input_data, "content")
            IN  Dict(<< P("file_path", GetOrEmpty(input_data, "file_path")),
                        P("content_length", Num(ToString(Len(content.v)))),
                        P("content_preview", Str(abbreviate(content.v, PreviewLimit))) >>)
      [] tool_name = "Bash" ->
            Dict(<< P("command",
                      Str(Take(GetOrEmpty(input_data, "command").v, CommandLimit))) >>)
      [] tool_name = "Glob" ->
            Dict(<< P("pattern", GetOrEmpty(input_data, "pattern")) >>)
      [] tool_name = "Grep" ->
            Dict(<< P("pattern", GetOrEmpty(input_data, "pattern")),
                    P("path", GetOrEmpty(input_data, "path")) >>)
      [] tool_name = "Edit" ->
            Dict(<< P("file_path", GetOrEmpty(input_data, "file_path")),
                    P("old_string",
                      Str(abbreviate(GetOrEmpty(input_data, "old_string").v,
                                     OldStringLimit))) >>)
      [] OTHER -> Dict(summarize_items(input_data.v, 1))

\* ------------------------------------------------------------------------
\* Streaming of one AssistantMessage
\* ------------------------------------------------------------------------
agent_event(event_type, fields) ==
    Dict(<< P("type", W("agent_event")), P("event_type", W(event_type)) >> \o fields)

\* block_event with the branch of ThinkingBlock left out
block_event_no_thinking(block, last_tool_name) ==
    CASE block.b = "TextBlock" ->
            agent_event("text", << P("content", Str(block.text)) >>)
      [] block.b = "ToolUseBlock" ->
            agent_event("tool_use",
                << P("tool_name", W(block.name)),
                   P("tool_input", _summarize_tool_input(block.name, block.input)) >>)
      [] block.b = "ToolResultBlock" ->
            agent_event("tool_result",
                << P("tool_name", Or(last_tool_name, W("Tool"))),
                   P("is_error", Or(block.is_error, False)),
                   P("output", Str(tool_result_output(block.text))) >>)
      [] OTHER -> None

\* block_event with the text of a TextBlock cut as a thinking is cut
block_event_text_cut(block, last_tool_name) ==
    CASE block.b = "TextBlock" ->
            agent_event("text",
                << P("content", Str(abbreviate(block.text, ThinkingLimit))) >>)
      [] block.b = "ThinkingBlock" ->
            agent_event("thinking",
                << P("content", Str(abbreviate(block.text, ThinkingLimit))) >>)
      [] block.b = "ToolUseBlock" ->
            agent_event("tool_use",
                << P("tool_name", W(block.name)),
                   P("tool_input", _summarize_tool_input(block.name, block.input)) >>)
      [] block.b = "ToolResultBlock" ->
            agent_event("tool_result",
                << P("tool_name", Or(last_tool_name, W("Tool"))),
                   P("is_error", Or(block.is_error, False)),
                   P("output", Str(tool_result_output(block.text))) >>)
      [] OTHER -> None

\* the frame lines 605-649 send for block, None for a block they skip
block_event(block, last_tool_name) ==
    CASE block.b = "TextBlock" ->
            agent_event("text", << P("content", Str(block.text)) >>)
      [] block.b = "ThinkingBlock" ->
            agent_event("thinking",
                << P("content", Str(abbreviate(block.text, ThinkingLimit))) >>)
      [] block.b = "ToolUseBlock" ->
            agent_event("tool_use",
                << P("tool_name", W(block.name)),
                   P("tool_input", _summarize_tool_input(block.name, block.input)) >>)
      [] block.b = "ToolResultBlock" ->
            agent_event("tool_result",
                << P("tool_name", Or(last_tool_name, W("Tool"))),
                   P("is_error", Or(block.is_error, False)),
                   P("output", Str(tool_result_output(block.text))) >>)
      [] OTHER -> None

\* the event of a ResultMessage named after the terminal response of the
\* other handlers instead of done
done_event_as_complete(msg) ==
    agent_event("complete",
        << P("is_error", msg.is_error), P("cost", Num("7")),
           P("duration_ms", Num("100")) >>)

\* the done event with the flag of the ResultMessage left out
done_event_flag_dropped(msg) ==
    agent_event("done",
        << P("is_error", False), P("cost", Num("7")),
           P("duration_ms", Num("100")) >>)

\* the done event of a ResultMessage (lines 651-661)
done_event(msg) ==
    agent_event("done",
        << P("is_error", msg.is_error), P("cost", Num("7")),
           P("duration_ms", Num("100")) >>)

RECURSIVE stream_blocks(_, _, _)

\* the for loop over msg.content from block i on; acc is what the loop has
\* written and assigned so far
stream_blocks(content, i, acc) ==
    IF i > Len(content) THEN acc
    ELSE LET block == content[i]
             name == IF block.b = "ToolUseBlock" THEN W(block.name)
                     ELSE acc.last_tool_name
             event == block_event(block, name)
         IN  stream_blocks(content, i + 1,
                [ out |-> IF event.t = "dict"
                          THEN acc.out \o send_message_bytes(event) ELSE acc.out,
                  final_text |-> IF block.b = "TextBlock"
                                 THEN acc.final_text \o block.text
                                 ELSE acc.final_text,
                  last_tool_name |-> name,
                  events |-> IF block.b \in EventBlocks
                             THEN Append(acc.events, block) ELSE acc.events ])

\* ------------------------------------------------------------------------
\* handle_generate and _generate_async
\* ------------------------------------------------------------------------
\* the fallback with its operands swapped: the session value wins
session_run_id_first(m, session) == Or(session, Get(m, "run_id"))

\* the fallback left out: only the message is asked for a run id
message_run_id_only(m, session) == Get(m, "run_id")

\* message.get("run_id") or self.current_run_id (lines 378 and 500)
effective_run_id(m, session) == Or(Get(m, "run_id"), session)

\* a coroutine that has finished with result
Finished(kind, run_id, m, result) ==
    [NoCo EXCEPT !.state = "done", !.kind = kind, !.run_id = run_id,
                 !.msg = m, !.result = result]

\* handle_generate up to the first suspension of _generate_async; setup is
\* how the imports (lines 404-406) and ClaudeEngineer(...) (lines 429-438) end
HandleGenerate(setup) ==
    /\ pc = "dispatch"
    /\ handle_message(message) = "handle_generate"
    /\ LET run_id == effective_run_id(message, current_run_id)
       IN  IF ~Truthy(run_id)
           THEN /\ Respond(handler_error(message,
                               <<"No run_id provided and no current session">>))
                /\ UNCHANGED co
           ELSE IF run_id.v \notin store
           THEN /\ co' = Finished("generate", run_id, message,
                            handler_error(message,
                                <<"HAR file not found: ">> \o har_path(run_id).v))
                /\ pc' = "run_async"
                /\ UNCHANGED stdout
           ELSE IF setup = "ImportError"
           THEN /\ co' = [Finished("generate", run_id, message, None)
                             EXCEPT !.exc = setup]
                /\ pc' = "run_async"
                /\ UNCHANGED stdout
           ELSE IF setup = "EngineerError"
           THEN /\ stdout' = stdout
                       \o send_message_bytes(progress("Analyzing HAR file...", "10"))
                /\ co' = [Finished("generate", run_id, message, None)
                             EXCEPT !.exc = setup]
                /\ pc' = "run_async"
           ELSE /\ stdout' = stdout
                       \o send_message_bytes(progress("Analyzing HAR file...", "10"))
                       \o send_message_bytes(
                              progress("Generating API client with Claude...", "30"))
                /\ co' = [NoCo EXCEPT !.state = "generate_await", !.kind = "generate",
                                      !.run_id = run_id, !.msg = message]
                /\ pc' = "run_async"
    /\ UNCHANGED << others, message, current_run_id, store, produced,
                    arrived, stdinClosed, lastRead >>

\* how a run of the generation engine that does not raise can end: with a
\* terminal result, or with a result that reports failure
EngineResults == {"result", "failure"}

\* analyze_and_generate returns (its value is not looked at); registry is
\* how SessionManager.add_run ends
GenerateEngineReturns(returned, registry) ==
    /\ co.state = "generate_await"
    /\ stdout' = stdout \o send_message_bytes(progress("Generation complete", "100"))
    /\ co' = [co EXCEPT
                !.state = "done",
                !.outcome = returned,
                !.result =
                    IF registry = "ok"
                    THEN Dict(<< P("type", W("complete")),
                                 P("script_path", scripts_dir(co.run_id)),
                                 P("run_id", co.run_id),
                                 P("_callbackId", Get(co.msg, "_callbackId")) >>)
                    ELSE retryable_error(co.msg, <<registry>>)]
    /\ UNCHANGED << others, pc, message, current_run_id, store, produced,
                    arrived, stdinClosed, lastRead >>

\* analyze_and_generate raises
GenerateEngineRaises ==
    /\ co.state = "generate_await"
    /\ co' = [co EXCEPT !.state = "done", !.outcome = "raised",
                        !.result = retryable_error(co.msg, <<"EngineError">>)]
    /\ UNCHANGED << others, pc, message, current_run_id, store, produced, stdout,
                    arrived, stdinClosed, lastRead >>

\* ------------------------------------------------------------------------
\* handle_chat and _chat_async_streaming
\* ------------------------------------------------------------------------
\* handle_chat up to the first suspension of _chat_async_streaming; setup is
\* how lines 528-591 (imports, mkdir, read_text, options) end
HandleChat(setup) ==
    /\ pc = "dispatch"
    /\ handle_message(message) = "handle_chat"
    /\ LET user_message == Get(message, "message")
           run_id == effective_run_id(message, current_run_id)
       IN  IF ~Truthy(user_message)
           THEN /\ Respond(handler_error(message, <<"No message provided">>))
                /\ UNCHANGED co
           ELSE IF ~Truthy(run_id)
           THEN /\ Respond(handler_error(message,
                               <<"No active session. Please capture traffic first.">>))
                /\ UNCHANGED co
           ELSE /\ pc' = "run_async"
                /\ UNCHANGED stdout
                /\ co' =
                     IF run_id.v \notin store
                     THEN Finished("chat", run_id, message,
                              handler_error(message,
                                  <<"No HAR file found. Please capture traffic first.">>))
                     ELSE IF setup # "ok"
                     THEN [Finished("chat", run_id, message, None) EXCEPT !.exc = setup]
                     ELSE [NoCo EXCEPT !.state = "chat_stream", !.kind = "chat",
                                       !.run_id = run_id, !.msg = message]
    /\ UNCHANGED << others, message, current_run_id, store, produced,
                    arrived, stdinClosed, lastRead >>

\* receive_response yields an AssistantMessage with these content blocks
ChatReceiveAssistant(content) ==
    /\ co.state = "chat_stream"
    /\ co.received + Len(content) <= MaxEvents
    /\ LET acc == stream_blocks(content, 1,
                      [ out |-> <<>>, final_text |-> co.final_text,
                        last_tool_name |-> co.last_tool_name, events |-> <<>> ])
       IN  /\ stdout' = stdout \o acc.out
           /\ produced' = produced \o acc.events
           /\ co' = [co EXCEPT !.final_text = acc.final_text,
                               !.last_tool_name = acc.last_tool_name,
                               !.received = co.received + Len(content)]
    /\ UNCHANGED << others, pc, message, current_run_id, store,
                    arrived, stdinClosed, lastRead >>

\* receive_response yields a ResultMessage
ChatReceiveResult(is_error) ==
    /\ co.state = "chat_stream"
    /\ co.received < MaxEvents
    /\ stdout' = stdout \o send_message_bytes(done_event(ResultMessage(is_error)))
    /\ produced' = Append(produced, ResultMessage(is_error))
    /\ co' = [co EXCEPT !.received = co.received + 1]
    /\ UNCHANGED << others, pc, message, current_run_id, store,
                    arrived, stdinClosed, lastRead >>

\* receive_response is exhausted and the client context exits (lines 663-670)
ChatStreamEnds ==
    /\ co.state = "chat_stream"
    /\ current_run_id' = co.run_id
    /\ co' = [co EXCEPT
                !.state = "done",
                !.outcome = "ended",
                !.result =
                    Dict(<< P("type", W("chat_response")),
                            P("message", IF co.final_text # <<>> THEN Str(co.final_text)
                                         ELSE W("Task completed.")),
                            P("content", IF co.final_text # <<>> THEN Str(co.final_text)
                                         ELSE W("I've processed your request.")),
                            P("_callbackId", Get(co.msg, "_callbackId")) >>)]
    /\ UNCHANGED << others, pc, message, store, produced, stdout,
                    arrived, stdinClosed, lastRead >>

\* an exception that leaves the coroutine uncaught and reaches the except
\* clause of handle_chat: nothing is written, handle_chat returns the error
chat_except_reraise(m, text) ==
    [ out |-> <<>>, result |-> handler_error(m, <<text>>) ]

\* the except clause of _chat_async_streaming (lines 672-684) for an
\* exception described by text: what it writes and what it returns
chat_except(m, text) ==
    [ out |-> send_message_bytes(agent_event("error", << P("message", W(text)) >>)),
      result |-> handler_error(m, <<text>>) ]

\* the client raises inside the try: while it connects, queries or streams,
\* or, with at_exit, when the client context exits after line 663
ChatRaises(at_exit) ==
    /\ co.state = "chat_stream"
    /\ LET caught == chat_except(co.msg, "AgentError")
       IN  /\ stdout' = stdout \o caught.out
           /\ co' = [co EXCEPT !.state = "done", !.outcome = "raised",
                               !.result = caught.result]
    /\ current_run_id' = IF at_exit THEN co.run_id ELSE current_run_id
    /\ UNCHANGED << others, pc, message, store, produced,
                    arrived, stdinClosed, lastRead >>

\* ------------------------------------------------------------------------
\* _run_async and the return of the handler
\* ------------------------------------------------------------------------
\* a _run_async that schedules the coroutine and returns at once
run_without_waiting(c) == TRUE

\* loop.run_until_complete(coro) returns only when the coroutine has finished
run_until_complete(c) == c.state = "done"

\* what handle_generate / handle_chat return once _run_async is back
handler_return(c) ==
    IF c.exc = "" THEN c.result
    ELSE IF c.kind = "generate" THEN retryable_error(c.msg, <<c.exc>>)
    ELSE handler_error(c.msg, <<c.exc>>)

\* _run_async returns, the handler returns and run_host sends the response
RunAsyncReturns ==
    /\ pc = "run_async"
    /\ run_until_complete(co)
    /\ Respond(handler_return(co))
    /\ co' = IF co.state = "done" THEN [co EXCEPT !.state = "returned"] ELSE co
    /\ UNCHANGED << others, message, current_run_id, store, produced,
                    arrived, stdinClosed, lastRead >>

\* ------------------------------------------------------------------------
\* Specification
\* ------------------------------------------------------------------------
Next ==
    \/ LoopTop
    \/ ExtensionSend
    \/ ExtensionClose
    \/ \E frame \in CompleteFrames : ReadFrame(frame)
    \/ \E tail \in Tails : ReadTail(tail)
    \/ HandleStatus
    \/ HandleUnknown
    \/ HandleRaises
    \/ \E fs \in {"ok", "OSError"} : HandleSaveHar(fs)
    \/ \E setup \in {"ok", "ImportError", "EngineerError"} : HandleGenerate(setup)
    \/ \E returned \in EngineResults, registry \in {"ok", "SessionError"} :
          GenerateEngineReturns(returned, registry)
    \/ GenerateEngineRaises
    \/ \E setup \in {"ok", "SetupError"} : HandleChat(setup)
    \/ \E content \in Contents(MaxEvents - co.received) : ChatReceiveAssistant(content)
    \/ \E is_error \in {True, False} : ChatReceiveResult(is_error)
    \/ ChatStreamEnds
    \/ \E at_exit \in BOOLEAN : ChatRaises(at_exit)
    \/ RunAsyncReturns

Spec == Init /\ [][Next]_vars

\* the frames and agent messages of the runs checked for termination: one
\* request of each kind, two that raise at the loop boundary, the payload
\* null, and one block per AssistantMessage
LiveRequests ==
    { Dict(<<P("type", W("status"))>>),
      Dict(<<P("type", W("bogus"))>>),
      Dict(<<P("type", W("saveHar")), P("run_id", W("r1")),
             P("har", Dict(<<P("log", Dict(<<>>))>>))>>),
      Dict(<<P("type", W("generate")), P("run_id", W("r1"))>>),
      Dict(<<P("type", W("chat")), P("message", W("hi"))>>) }

LiveFrames ==
    {Frame(json_dumps(x)) : x \in LiveRequests \cup {None, List(<<>>)}}
    \cup {Frame(<<200>>)}

LiveContents == {<<TextBlock(<<"a">>)>>, <<OtherBlock>>}

\* a step of the host process: run_host, a handler or the coroutine it
\* waits for
HostStep ==
    \/ LoopTop
    \/ \E frame \in LiveFrames : ReadFrame(frame)
    \/ \E tail \in Tails : ReadTail(tail)
    \/ HandleStatus
    \/ HandleUnknown
    \/ HandleRaises
    \/ \E fs \in {"ok", "OSError"} : HandleSaveHar(fs)
    \/ \E setup \in {"ok", "ImportError", "EngineerError"} : HandleGenerate(setup)
    \/ \E returned \in EngineResults, registry \in {"ok", "SessionError"} :
          GenerateEngineReturns(returned, registry)
    \/ GenerateEngineRaises
    \/ \E setup \in {"ok", "SetupError"} : HandleChat(setup)
    \/ \E content \in LiveContents : ChatReceiveAssistant(content)
    \/ \E is_error \in {True, False} : ChatReceiveResult(is_error)
    \/ ChatStreamEnds
    \/ \E at_exit \in BOOLEAN : ChatRaises(at_exit)
    \/ RunAsyncReturns

LiveNext ==
    \/ ExtensionSend
    \/ ExtensionClose
    \/ HostStep

\* the host process keeps running while it is not blocked in a read, and
\* every call of the engine or the agent it waits for comes back
LiveSpec == Init /\ [][LiveNext]_vars /\ WF_vars(HostStep)

\* ------------------------------------------------------------------------
\* The codec on its own: send_message writes into a pipe, read_message reads
\* from its other end
\* ------------------------------------------------------------------------
\* frames that may wait in the pipe at once
MaxPending == 2

\* values an entry of a message may hold
CodecValues ==
    { None, True, False, Num("7"), Num("100"), Str(<<>>), W("hi"), W("null"),
      Str(<<"a", "b">>), List(<<>>), List(<<Num("1"), W("hi"), None>>),
      Dict(<<>>), Dict(<<P("run_id", W("r1"))>>),
      List(<<Dict(<<P("log", List(<<True>>))>>)>>) }

\* the messages handed to send_message
CodecObjects ==
    {Dict(<<>>)}
    \cup { Dict(<<P("type", x)>>) : x \in CodecValues }
    \cup { Dict(<<P("type", W("status")), P("message", x)>>) :
             x \in {None, W("hi"), Dict(<<P("type", W("status"))>>)} }
    \cup { Dict(<<P("message", W("hi")), P("type", W("status"))>>) }

\* no message sent or read yet; in this specification produced holds the
\* messages written and not yet read, stdout the bytes in the pipe, lastRead
\* the bytes of the last read and message what it returned
CodecInit ==
    /\ NoOthers
    /\ pc = "codec"
    /\ message = None
    /\ current_run_id = None
    /\ store = {}
    /\ co = NoCo
    /\ produced = <<>>
    /\ stdout = <<>>
    /\ arrived = FALSE
    /\ stdinClosed = FALSE
    /\ lastRead = <<>>

\* send_message(O)
CodecSend(O) ==
    /\ pc = "codec"
    /\ Len(produced) < MaxPending
    /\ stdout' = stdout \o send_message_bytes(O)
    /\ produced' = Append(produced, O)
    /\ UNCHANGED << others, pc, message, current_run_id, store, co,
                    arrived, stdinClosed, lastRead >>

\* read_message() at the other end of the pipe
CodecRead ==
    /\ pc = "codec"
    /\ produced # <<>>
    /\ LET r == read_message_on(stdout)
       IN  /\ message' = IF r.exc # "" THEN W(r.exc) ELSE r.val
           /\ lastRead' = Take(stdout, r.used)
           /\ stdout' = Drop(stdout, r.used)
    /\ produced' = Tail(produced)
    /\ UNCHANGED << others, pc, current_run_id, store, co, arrived, stdinClosed >>

CodecNext ==
    \/ \E O \in CodecObjects : CodecSend(O)
    \/ CodecRead

CodecSpec == CodecInit /\ [][CodecNext]_vars

\* ------------------------------------------------------------------------
\* The stream of one chat request whose agent sends long texts
\* ------------------------------------------------------------------------
\* how far below and above a limit the lengths of the texts go
MaxOver == 1

\* a text of n characters
LongText(n) == [i \in 1..n |-> "a"]

Around(limit) == {n \in (limit - MaxOver)..(limit + MaxOver) : n >= 0}

\* blocks whose text is as long as the limit of their branch, or just
\* shorter or longer
LongBlocks ==
    { TextBlock(LongText(n)) : n \in Around(ThinkingLimit) }
    \cup { TextBlock(<<>>), TextBlock(<<"b">>) }
    \cup { ThinkingBlock(LongText(n)) : n \in Around(ThinkingLimit) }
    \cup { ToolResultBlock(LongText(n), None) : n \in Around(ToolResultLimit) }
    \cup { ToolUseBlock("Bash", Dict(<<P("command", Str(LongText(n)))>>)) :
             n \in Around(CommandLimit) }
    \cup { ToolUseBlock("Edit", Dict(<<P("old_string", Str(LongText(n)))>>)) :
             n \in Around(OldStringLimit) }

\* the chat request whose stream is followed
StreamRequest ==
    Dict(<<P("type", W("chat")), P("message", W("hi")), P("run_id", W("r1"))>>)

\* run_host waits in _run_async for the coroutine of StreamRequest, which
\* has connected to the agent and has received nothing yet
StreamInit ==
    /\ NoOthers
    /\ pc = "run_async"
    /\ message = StreamRequest
    /\ current_run_id = None
    /\ store = {<<"r1">>}
    /\ co = [NoCo EXCEPT !.state = "chat_stream", !.kind = "chat",
                         !.run_id = W("r1"), !.msg = StreamRequest]
    /\ produced = <<>>
    /\ stdout = <<>>
    /\ arrived = FALSE
    /\ stdinClosed = FALSE
    /\ lastRead = Frame(json_dumps(StreamRequest))

StreamNext ==
    \/ \E block \in LongBlocks : ChatReceiveAssistant(<<block>>)
    \/ ChatStreamEnds
    \/ RunAsyncReturns

StreamSpec == StreamInit /\ [][StreamNext]_vars

\* ------------------------------------------------------------------------
\* Collector._agent_loop: the usage the agent reports with its messages
\* ------------------------------------------------------------------------
\* messages the agent sends in one run
MaxMessages == 3

\* the values of a usage dict: t is the Python class, n the number an int, a
\* float (n.0) or a bool stands for, 0 for the other classes
UsageValue(t, n) == [t |-> t, n |-> n]

\* the keys of a usage dict: a str, or an int, which is hashable as well
UsageKey(t, name) == [t |-> t, name |-> name]

input_tokens == UsageKey("str", "input_tokens")

output_tokens == UsageKey("str", "output_tokens")

service_tier == UsageKey("str", "service_tier")

\* the items of the usage dicts the agent may report
UsageReports ==
    { <<>>,
      << <<input_tokens, UsageValue("int", 1)>> >>,
      << <<input_tokens, UsageValue("int", 2)>>,
         <<output_tokens, UsageValue("int", 1)>> >>,
      << <<output_tokens, UsageValue("float", 1)>>,
         <<input_tokens, UsageValue("int", 0)>> >>,
      << <<input_tokens, UsageValue("bool", 1)>> >>,
      << <<service_tier, UsageValue("str", 0)>>,
         <<output_tokens, UsageValue("int", 2)>> >>,
      << <<input_tokens, UsageValue("NoneType", 0)>>,
         <<output_tokens, UsageValue("dict", 0)>> >>,
      << <<UsageKey("int", "7"), UsageValue("int", 1)>>,
         <<input_tokens, UsageValue("str", 0)>> >> }

\* a message of the agent; has_usage is hasattr(message, "usage"), usage
\* the items of message.usage when it is a dict
AgentMessage(cls, has_usage, usage_is_dict, items, is_error) ==
    [ cls |-> cls, has_usage |-> has_usage, usage_is_dict |-> usage_is_dict,
      items |-> items, is_error |-> is_error ]

AgentMessages ==
    { AgentMessage("SystemMessage", FALSE, FALSE, <<>>, FALSE),
      AgentMessage("AssistantMessage", TRUE, FALSE, <<>>, FALSE),
      AgentMessage("ResultMessage", TRUE, FALSE, <<>>, FALSE),
      AgentMessage("ResultMessage", TRUE, FALSE, <<>>, TRUE) }
    \cup { AgentMessage(cls, TRUE, TRUE, items, FALSE) :
             cls \in {"AssistantMessage", "ResultMessage"},
             items \in UsageReports }

\* isinstance(x, (int, float)); bool is a subclass of int
isinstance_number(x) == x.t \in {"int", "float", "bool"}

\* current + value: a float when either is one, an int otherwise
plus(current, value) ==
    UsageValue(IF current.t = "float" \/ value.t = "float" THEN "float" ELSE "int",
               current.n + value.n)

\* d.get(key, default) on the items of a dict
get(items, key, default) ==
    IF \E i \in 1..Len(items) : items[i][1] = key
    THEN items[CHOOSE i \in 1..Len(items) : items[i][1] = key][2]
    ELSE default

\* the assignment of line 145 replaced by one that stores the value reported
store_reported(meta, key, current, value) == SetItem(meta, key, value)

\* self.usage_metadata[key] = current + value (line 145)
accumulate(meta, key, current, value) == SetItem(meta, key, plus(current, value))

RECURSIVE track_usage(_, _, _)

\* the for loop of lines 141-145 from item i on
track_usage(items, i, meta) ==
    IF i > Len(items) THEN meta
    ELSE LET key == items[i][1]
             value == items[i][2]
             current == get(meta, key, UsageValue("int", 0))
         IN  track_usage(items, i + 1,
                IF key.t = "str" /\ isinstance_number(value) /\ isinstance_number(current)
                THEN accumulate(meta, key, current, value)
                ELSE meta)

\* Collector.__init__ has run and _agent_loop has sent its prompt; in this
\* specification produced holds the messages receive_response has yielded
CollectorInit ==
    /\ pc = "agent_loop"
    /\ message = None
    /\ current_run_id = None
    /\ store = {}
    /\ co = NoCo
    /\ produced = <<>>
    /\ stdout = <<>>
    /\ arrived = FALSE
    /\ stdinClosed = FALSE
    /\ lastRead = <<>>
    /\ usage_metadata = <<>>
    /\ actions = <<>>
    /\ files = <<>>
    /\ call_result = <<>>

\* one turn of the async for: usage is tracked first (lines 137-145), a
\* ResultMessage then returns from the loop (lines 172-178)
AgentLoopReceives(msg) ==
    /\ pc = "agent_loop"
    /\ Len(produced) < MaxMessages
    /\ produced' = Append(produced, msg)
    /\ usage_metadata' =
          IF msg.has_usage /\ msg.usage_is_dict
          THEN track_usage(msg.items, 1, usage_metadata)
          ELSE usage_metadata
    /\ pc' = IF msg.cls = "ResultMessage"
             THEN (IF msg.is_error THEN "agent_error" ELSE "agent_success")
             ELSE "agent_loop"
    /\ UNCHANGED << message, current_run_id, store, co, stdout, arrived,
                    stdinClosed, lastRead, actions, files, call_result >>

\* receive_response is exhausted without a ResultMessage (line 186)
AgentLoopEnds ==
    /\ pc = "agent_loop"
    /\ pc' = "agent_success"
    /\ UNCHANGED << message, current_run_id, store, co, produced, stdout,
                    arrived, stdinClosed, lastRead, others >>

\* the client or the handling of a block raises (lines 180-184)
AgentLoopRaises ==
    /\ pc = "agent_loop"
    /\ pc' = "agent_error"
    /\ UNCHANGED << message, current_run_id, store, co, produced, stdout,
                    arrived, stdinClosed, lastRead, others >>

CollectorNext ==
    \/ \E msg \in AgentMessages : AgentLoopReceives(msg)
    \/ AgentLoopEnds
    \/ AgentLoopRaises

CollectorSpec == CollectorInit /\ [][CollectorNext]_vars

\* ------------------------------------------------------------------------
\* ActionRecorder: add_action, get_actions, save and load
\* ------------------------------------------------------------------------
\* actions one recorder is given
MaxActions == 2

Paths == {"session.json", "other.json"}

RecordedAction(type, selector, value, url, timestamp, metadata) ==
    [ type |-> type, selector |-> selector, value |-> value, url |-> url,
      timestamp |-> timestamp, metadata |-> metadata ]

\* actions a session records: one with the defaults, one with every field
\* set, one whose metadata holds a tuple and one whose metadata has an int
\* key
RecordedActions ==
    { RecordedAction(W("click"), None, None, None, Float("0.0"), None),
      RecordedAction(W("fill"), W("#name"), W("hi"), W("http://a"), Float("7.5"),
                     Dict(<<P("tag", W("input")), P("path", List(<<Num("1"), None>>))>>)),
      RecordedAction(W("click"), W("#map"), None, None, Float("7.5"),
                     Dict(<<P("position", Tuple(<<Num("10"), Num("30")>>))>>)),
      RecordedAction(W("press"), None, W("Enter"), None, Float("0.0"),
                     IntKeyDict(<<P("0", W("Enter"))>>)) }

\* dataclasses.asdict(action): the fields in the order of their declaration
asdict(action) ==
    Dict(<< P("type", action.type), P("selector", action.selector),
            P("value", action.value), P("url", action.url),
            P("timestamp", action.timestamp), P("metadata", action.metadata) >>)

NEWLINE == "\n"

\* token i of toks is outside every string
Outside(toks, i) ==
    /\ toks[i] # QUOTE
    /\ Cardinality({k \in 1..i : toks[k] = QUOTE}) % 2 = 0

\* token i of toks closes a string
Closes(toks, i) ==
    /\ toks[i] = QUOTE
    /\ Cardinality({k \in 1..i : toks[k] = QUOTE}) % 2 = 0

RECURSIVE Layout(_, _, _)

\* tokens first..last of toks, with a line break and its indentation after
\* every token that ends a value or opens or closes a container
Layout(toks, first, last) ==
    IF first > last THEN <<>>
    ELSE IF first = last
    THEN (IF (Outside(toks, first) \/ Closes(toks, first)) /\ first < Len(toks)
          THEN <<toks[first], NEWLINE>> ELSE <<toks[first]>>)
    ELSE LET middle == (first + last) \div 2
         IN  Layout(toks, first, middle) \o Layout(toks, middle + 1, last)

\* the text json.dump(data, f, indent=2) writes
json_dump_indent(data) ==
    LET toks == json_dumps_tokens(data)
    IN  Layout(toks, 1, Len(toks))

IsToken(t) == t # NEWLINE

\* text without the whitespace between its tokens; inside a string
\* json.dump writes a line break as an escape, never as whitespace
SkipWhitespace(text) == SelectSeq(text, IsToken)

\* json.load(f): [exc, val]
json_load(text) ==
    LET toks == SkipWhitespace(text)
        r == ParseValue(toks, 1)
    IN  IF r.ok /\ r.next = Len(toks) + 1
        THEN [exc |-> "", val |-> r.val]
        ELSE [exc |-> "JSONDecodeError", val |-> None]

Fields == {"type", "selector", "value", "url", "timestamp", "metadata"}

\* item[k] when item has the key, the default of the field otherwise
FieldOr(item, k, default) == IF HasKey(item, k) THEN Get(item, k) ELSE default

\* RecordedAction(**item): [exc, action]
from_item(item) ==
    IF \/ item.t # "dict"
       \/ ~HasKey(item, "type")
       \/ \E i \in 1..Len(item.v) : \A k \in Fields : item.v[i][1] # <<k>>
    THEN [exc |-> "TypeError", action |-> None]
    ELSE [exc |-> "",
          action |-> RecordedAction(Get(item, "type"),
                                    FieldOr(item, "selector", None),
                                    FieldOr(item, "value", None),
                                    FieldOr(item, "url", None),
                                    FieldOr(item, "timestamp", Float("0.0")),
                                    FieldOr(item, "metadata", None))]

\* no file at a path.  saved is the list of actions the text of a file
\* was written from, kept for comparison
NoFile == [exists |-> FALSE, text |-> <<>>, saved |-> <<>>]

\* nothing returned yet.  file is the state load found its path in
NoReturn == [op |-> "none", exc |-> "", actions |-> <<>>, file |-> NoFile]

\* the body of load (lines 44-50) on the state of its path: [exc, actions]
load_file(file) ==
    IF ~file.exists THEN [exc |-> "", actions |-> <<>>]
    ELSE LET data == json_load(file.text)
         IN  IF data.exc # "" THEN [exc |-> data.exc, actions |-> <<>>]
             ELSE IF data.val.t # "list" THEN [exc |-> "TypeError", actions |-> <<>>]
             ELSE IF \E i \in 1..Len(data.val.v) : from_item(data.val.v[i]).exc # ""
             THEN [exc |-> "TypeError", actions |-> <<>>]
             ELSE [exc |-> "",
                   actions |-> [i \in 1..Len(data.val.v) |->
                                   from_item(data.val.v[i]).action]]

\* ActionRecorder() has been constructed and no file has been written; in
\* this specification produced holds the arguments of the add_action calls
RecorderInit ==
    /\ pc = "recorder"
    /\ message = None
    /\ current_run_id = None
    /\ store = {}
    /\ co = NoCo
    /\ produced = <<>>
    /\ stdout = <<>>
    /\ arrived = FALSE
    /\ stdinClosed = FALSE
    /\ lastRead = <<>>
    /\ usage_metadata = <<>>
    /\ actions = <<>>
    /\ files = [path \in Paths |-> NoFile]
    /\ call_result = NoReturn

\* add_action(action); a list get_actions returned is the same object as
\* self.actions and grows with it
add_action(action) ==
    /\ pc = "recorder"
    /\ Len(actions) < MaxActions
    /\ actions' = Append(actions, action)
    /\ produced' = Append(produced, action)
    /\ call_result' = IF call_result.op = "get_actions"
                   THEN [call_result EXCEPT !.actions = actions']
                   ELSE call_result
    /\ UNCHANGED << pc, message, current_run_id, store, co, stdout, arrived,
                    stdinClosed, lastRead, usage_metadata, files >>

get_actions ==
    /\ pc = "recorder"
    /\ call_result' = [op |-> "get_actions", exc |-> "", actions |-> actions,
                    file |-> NoFile]
    /\ UNCHANGED << pc, message, current_run_id, store, co, produced, stdout,
                    arrived, stdinClosed, lastRead, usage_metadata, actions, files >>

save(path) ==
    /\ pc = "recorder"
    /\ LET data == List([i \in 1..Len(actions) |-> asdict(actions[i])])
       IN  files' = [files EXCEPT ![path] =
                        [exists |-> TRUE, text |-> json_dump_indent(data),
                         saved |-> actions]]
    /\ UNCHANGED << pc, message, current_run_id, store, co, produced, stdout,
                    arrived, stdinClosed, lastRead, usage_metadata, actions,
                    call_result >>

\* ActionRecorder.load(path): a new recorder, this one is left as it is
load(path) ==
    /\ pc = "recorder"
    /\ LET r == load_file(files[path])
       IN  call_result' = [op |-> "load", exc |-> r.exc, actions |-> r.actions,
                       file |-> files[path]]
    /\ UNCHANGED << pc, message, current_run_id, store, co, produced, stdout,
                    arrived, stdinClosed, lastRead, usage_metadata, actions, files >>

RecorderNext ==
    \/ \E action \in RecordedActions : add_action(action)
    \/ get_actions
    \/ \E path \in Paths : save(path)
    \/ \E path \in Paths : load(path)

RecorderSpec == RecorderInit /\ [][RecorderNext]_vars

\* ------------------------------------------------------------------------
\* What an observer of the streams sees
\* ------------------------------------------------------------------------
Garbage == [t |-> "garbage", v |-> <<>>]

RECURSIVE FramesOf(_)

\* the messages decoded frame by frame from a byte stream; bytes that are no
\* whole frame of JSON decode to Garbage
FramesOf(bytes) ==
    IF Len(bytes) = 0 THEN <<>>
    ELSE LET r == read_message_on(bytes)
         IN  IF r.eof \/ r.exc # "" THEN <<Garbage>>
             ELSE <<r.val>> \o FramesOf(Drop(bytes, r.used))

\* the frames written in this iteration
Written == FramesOf(stdout)

\* f[k] for a frame that is an object, None otherwise
Field(f, k) == IF f.t = "dict" THEN Get(f, k) ELSE None

HasField(f, k) == f.t = "dict" /\ HasKey(f, k)

IsType(f, w) == IsWord(Field(f, "type"), w)

\* a terminal response is a frame that is neither progress nor agent_event
IsTerminal(f) == ~IsType(f, "progress") /\ ~IsType(f, "agent_event")

Last(frames) == frames[Len(frames)]

\* what read_message made of the bytes it consumed in this iteration
Request == read_message_on(lastRead)

\* bytes are one whole frame: four length bytes and as many payload bytes
\* as they declare
WholeFrame(bytes) ==
    /\ Len(bytes) >= 4
    /\ Len(bytes) = 4 + unpack(Take(bytes, 4))

\* a whole frame was read in this iteration
FrameRead == WholeFrame(lastRead)

\* rq, the reading of the bytes consumed, is a whole frame with a JSON object
ObjectRead(rq) == FrameRead /\ rq.exc = "" /\ rq.val.t = "dict"

RequestIs(rq, w) == ObjectRead(rq) /\ IsWord(Get(rq.val, "type"), w)

\* the iteration that read a whole frame is over
IterationOver == pc = "loop" /\ FrameRead

\* the agent of a chat request was driven in this iteration
ChatStreamed == co.kind = "chat" /\ co.outcome \in {"ended", "raised"}

EventTypeOf(block) ==
    CASE block.b = "TextBlock" -> "text"
      [] block.b = "ThinkingBlock" -> "thinking"
      [] block.b = "ToolUseBlock" -> "tool_use"
      [] block.b = "ToolResultBlock" -> "tool_result"
      [] block.b = "ResultMessage" -> "done"

\* the first n of frames are the agent_event frames of the n events
\* produced, one each, in order
EventsMatch(frames, n) ==
    /\ n = Len(produced)
    /\ n <= Len(frames)
    /\ \A i \in 1..n :
          /\ IsType(frames[i], "agent_event")
          /\ IsWord(Field(frames[i], "event_type"), EventTypeOf(produced[i]))
          /\ produced[i].b = "TextBlock" =>
                Field(frames[i], "content") = Str(produced[i].text)

\* ------------------------------------------------------------------------
\* Claims
\* ------------------------------------------------------------------------
\* C1 as stated: when the iteration of a chat request whose agent was driven
\* is over, the frames written are exactly one agent_event frame per event
\* produced, in order, followed by the terminal response.
C1_ExactlyNEventFrames ==
    LET w == Written
    IN  (IterationOver /\ ChatStreamed) =>
            /\ w # <<>>
            /\ IsTerminal(Last(w))
            /\ EventsMatch(w, Len(w) - 1)

\* C1 amended: the N events produced are written as N agent_event frames in
\* the order produced; when the agent raised, one agent_event of event_type
\* error follows them; the terminal response comes after all of them, is
\* the only terminal frame and nothing is written after it.
C1_EventFramesBeforeTerminal ==
    LET w == Written
        n == Len(produced)
    IN  /\ \A i \in 1..Len(w) :
              IsTerminal(w[i]) => (i = Len(w) /\ pc = "loop")
        /\ (pc = "run_async" /\ co.state = "chat_stream") => EventsMatch(w, Len(w))
        /\ (IterationOver /\ ChatStreamed) =>
              /\ Len(w) = n + 1 + (IF co.outcome = "raised" THEN 1 ELSE 0)
              /\ EventsMatch(w, n)
              /\ co.outcome = "raised" =>
                    /\ IsType(w[n + 1], "agent_event")
                    /\ IsWord(Field(w[n + 1], "event_type"), "error")
              /\ IsTerminal(Last(w))

\* C1 witness: a chat iteration is over in which the agent produced two
\* events of different kinds and then raised
C1_Witness ==
    /\ IterationOver
    /\ ChatStreamed
    /\ co.outcome = "raised"
    /\ Len(produced) = 2
    /\ produced[1].b # produced[2].b

\* C2: at most one request is in flight.  A coroutine is suspended or
\* finished only while run_host waits in _run_async for the request it read
\* in this iteration; when run_host is reading, dispatching or has stopped,
\* no coroutine is alive, and when an iteration is over its frames end with
\* the terminal response and its coroutine has returned.
C2_OneRequestInFlight ==
    LET rq == Request
        w == Written
    IN  /\ co.state \in {"generate_await", "chat_stream", "done"} =>
              (pc = "run_async" /\ co.msg = message /\ ObjectRead(rq)
               /\ rq.val = message)
        /\ pc \in {"read", "dispatch", "closed"} => co.state = "none"
        /\ IterationOver =>
              (co.state \in {"none", "returned"} /\ w # <<>> /\ IsTerminal(Last(w)))

\* C2 witness: a second frame waits unread on stdin while the agent of the
\* chat request in flight has streamed an event
C2_Witness ==
    /\ pc = "run_async"
    /\ co.state = "chat_stream"
    /\ arrived
    /\ Len(produced) = 1
    /\ Len(Written) = 1

\* C3 as stated: a whole frame whose payload is not valid JSON, or is JSON
\* but not an object, is answered by exactly one error response without
\* _callbackId, and the loop goes on.
C3_MalformedAnsweredOnce ==
    LET rq == Request
        w == Written
    IN  (FrameRead /\ ~ObjectRead(rq) /\ pc \in {"loop", "closed"}) =>
            /\ pc = "loop"
            /\ Len(w) = 1
            /\ IsType(w[1], "error")
            /\ ~HasField(w[1], "_callbackId")

\* C4 as stated: an object whose type is missing or is not one of the four
\* registered strings is answered by one error response that echoes the
\* _callbackId of the message.
C4_UnknownTypeEchoesCallback ==
    LET rq == Request
        w == Written
    IN  (IterationOver /\ ObjectRead(rq)
           /\ ~(\E t \in {"status", "saveHar", "generate", "chat"} : RequestIs(rq, t))) =>
            /\ Len(w) = 1
            /\ IsType(w[1], "error")
            /\ HasKey(rq.val, "_callbackId") =>
                  /\ HasField(w[1], "_callbackId")
                  /\ Field(w[1], "_callbackId") = Get(rq.val, "_callbackId")

\* rq is the reading of a whole frame that no handler can serve:
\* undecodable, not an object, or an object on which handle_message raises
\* or finds no handler
FailedRequest(rq) ==
    /\ FrameRead
    /\ \/ ~ObjectRead(rq)
       \/ handle_message(rq.val) \in {"AttributeError", "TypeError", "unknown"}

\* C5 as stated: a failed request never ends the host; once it has been
\* dealt with, an error response has been written for it and run_host is
\* back at the top of the loop.
C5_FailureBecomesErrorFrame ==
    LET w == Written
    IN  (FailedRequest(Request) /\ pc \in {"loop", "closed"}) =>
            /\ pc = "loop"
            /\ w # <<>>
            /\ IsType(Last(w), "error")

\* C6 as stated: the terminal response to a request that carries a
\* _callbackId carries the same _callbackId, on every path.
C6_TerminalEchoesCallback ==
    LET rq == Request
        w == Written
    IN  (IterationOver /\ ObjectRead(rq) /\ HasKey(rq.val, "_callbackId")) =>
            /\ w # <<>>
            /\ HasField(Last(w), "_callbackId")
            /\ Field(Last(w), "_callbackId") = Get(rq.val, "_callbackId")

\* the bytes read in this iteration stop short of a whole frame
TruncatedRead == lastRead # <<>> /\ ~WholeFrame(lastRead)

\* C7: a read that finds fewer than 4 length bytes, or fewer payload bytes
\* than declared, returns None without raising; run_host leaves the loop
\* and writes no frame.
C7_TruncatedFrameEndsCleanly ==
    (pc # "read" /\ TruncatedRead) =>
        /\ pc = "closed"
        /\ message = None
        /\ stdout = <<>>

\* C7 witness: the host has stopped on a frame whose length prefix is whole
\* and whose payload is cut short
C7_Witness ==
    /\ pc = "closed"
    /\ Len(lastRead) = 5
    /\ unpack(Take(lastRead, 4)) > 1

\* C8 as stated: run_host stops only on end of stream; no whole frame makes
\* it stop reading.
C8_ClosedOnlyOnEndOfStream ==
    pc = "closed" => ~FrameRead

\* the run a successful request rq was about
CompletedRun(rq) ==
    IF RequestIs(rq, "saveHar") THEN Get(rq.val, "run_id") ELSE co.run_id

\* C9 as stated: after a saveHar, generate or chat request for run R has
\* ended with complete, complete or chat_response, current_run_id is R.
C9_SuccessSetsCurrentRun ==
    LET rq == Request
        w == Written
    IN  (IterationOver
           /\ (\E t \in {"saveHar", "generate", "chat"} : RequestIs(rq, t))
           /\ (IsType(Last(w), "complete") \/ IsType(Last(w), "chat_response"))) =>
            current_run_id = CompletedRun(rq)

NoRunIdText(t) ==
    CASE t = "saveHar" -> <<"Missing run_id or har data">>
      [] t = "generate" -> <<"No run_id provided and no current session">>
      [] t = "chat" -> <<"No active session. Please capture traffic first.">>

\* frame f is the error response a handler of type t returns for lack of a
\* run id
NoRunIdError(f, t) ==
    /\ IsType(f, "error")
    /\ Field(f, "message") = Str(NoRunIdText(t))

\* request rq has what its handler asks for besides a run id
OtherwiseServable(rq, t) ==
    CASE t = "saveHar" -> Truthy(Get(rq.val, "har"))
      [] t = "generate" -> TRUE
      [] t = "chat" -> Truthy(Get(rq.val, "message"))

RECURSIVE WholeFrames(_)

\* bytes are a concatenation of frames, each a 4-byte little-endian length
\* followed by exactly that many bytes, which are the JSON text of one
\* object as json.dumps writes it
WholeFrames(bytes) ==
    IF Len(bytes) = 0 THEN TRUE
    ELSE /\ Len(bytes) >= 4
         /\ LET n == unpack(Take(bytes, 4))
                payload == SubSeq(bytes, 5, 4 + n)
            IN  /\ Len(bytes) >= 4 + n
                /\ LET parsed == json_loads(payload)
                   IN  /\ parsed.exc = ""
                       /\ parsed.val.t = "dict"
                       /\ json_dumps(parsed.val) = payload
                /\ WholeFrames(Drop(bytes, 4 + n))

\* C12: in every reachable state, also while a coroutine is suspended
\* between two events, the bytes written to stdout are a concatenation of
\* whole frames: every length prefix equals the byte length of the JSON
\* payload that follows it and no frame is split by bytes of another.
C12_OutputIsWholeFrames ==
    WholeFrames(stdout)

\* C12 witness: the agent of a chat request is suspended after two
\* agent_event frames have been written, with the terminal response still
\* to come
C12_Witness ==
    /\ pc = "run_async"
    /\ co.state = "chat_stream"
    /\ Len(produced) = 2
    /\ Len(stdout) > 8
    /\ Len(FramesOf(stdout)) = 2

\* the agent of the chat request of this iteration raised inside the try
AgentRaised == co.kind = "chat" /\ co.outcome = "raised"

IsErrorEvent(f) ==
    IsType(f, "agent_event") /\ IsWord(Field(f, "event_type"), "error")

\* C13: when the agent of a chat request raises, exactly one agent_event of
\* event_type error is written, it is the last frame before the terminal
\* response, every frame before it is an agent_event, and the terminal
\* response is of type error with the same description.
C13_AgentFailureShownTwice ==
    LET w == Written
        n == Len(w)
    IN  /\ (AgentRaised /\ pc = "run_async") =>
              /\ n >= 1
              /\ IsErrorEvent(w[n])
        /\ (AgentRaised /\ IterationOver) =>
              /\ n >= 2
              /\ IsErrorEvent(w[n - 1])
              /\ \A i \in 1..(n - 2) :
                    IsType(w[i], "agent_event") /\ ~IsErrorEvent(w[i])
              /\ IsType(w[n], "error")
              /\ Field(w[n], "message") = Field(w[n - 1], "message")

\* C13 witness: the agent raised after it had streamed two events, and the
\* iteration is over
C13_Witness ==
    /\ AgentRaised
    /\ IterationOver
    /\ Len(produced) = 2
    /\ Len(Written) = 4

\* the complete response of a generate request for the run of the coroutine
IsGenerateComplete(f) ==
    /\ IsType(f, "complete")
    /\ Field(f, "run_id") = co.run_id
    /\ Field(f, "script_path") = scripts_dir(co.run_id)

\* C14 as stated: once analyze_and_generate has returned its result, the
\* generate request ends with the complete response (script_path and
\* run_id), whether or not SessionManager.add_run fails afterwards.
C14_RegistryFailureKeepsComplete ==
    LET rq == Request
        w == Written
    IN  (IterationOver /\ RequestIs(rq, "generate") /\ co.outcome = "result") =>
            IsGenerateComplete(Last(w))

\* C15 as stated: when the run of the engine for a generate request ends in
\* failure, by an exception or by the result it returns, the terminal
\* response is of type error and never complete.
C15_EngineFailureIsError ==
    LET rq == Request
        w == Written
    IN  (IterationOver /\ RequestIs(rq, "generate")
           /\ co.outcome \in {"raised", "failure"}) =>
            /\ IsType(Last(w), "error")
            /\ ~IsType(Last(w), "complete")

\* handle_message raises for the message read in this iteration
DispatchRaised(rq) ==
    /\ FrameRead
    /\ rq.exc = ""
    /\ rq.val.t # "NoneType"
    /\ handle_message(rq.val) \in {"AttributeError", "TypeError"}

\* str(e) for the exception handle_message raises on message m
DispatchExceptionText(m) ==
    IF handle_message(m) = "AttributeError"
    THEN <<"'", m.t, "' object has no attribute 'get'">>
    ELSE <<"unhashable type: '", Get(m, "type").t, "'">>

\* C16 as stated: the error response of the loop boundary carries the
\* description of the exception in message and a retryable entry that is
\* false.
C16_LoopErrorRetryableFalse ==
    LET rq == Request
        w == Written
    IN  (IterationOver /\ DispatchRaised(rq)) =>
            /\ Len(w) = 1
            /\ IsType(w[1], "error")
            /\ Field(w[1], "message") = Str(DispatchExceptionText(rq.val))
            /\ HasField(w[1], "retryable")
            /\ Field(w[1], "retryable") = False

\* C16 amended: the error response of the loop boundary carries the
\* description of the exception in message and has no retryable entry at
\* all, so the hint is never true; it is the only frame of the iteration.
C16_LoopErrorHasNoHint ==
    LET rq == Request
        w == Written
    IN  (IterationOver /\ DispatchRaised(rq)) =>
            /\ Len(w) = 1
            /\ IsType(w[1], "error")
            /\ Field(w[1], "message") = Str(DispatchExceptionText(rq.val))
            /\ ~HasField(w[1], "retryable")
            /\ Field(w[1], "retryable") # True

\* C16 witness: a message whose type is a list made handlers.get raise and
\* the loop boundary has answered
C16_Witness ==
    LET rq == Request
    IN  /\ IterationOver
        /\ DispatchRaised(rq)
        /\ handle_message(rq.val) = "TypeError"
        /\ Len(Written) = 1

\* frame f echoes the _callbackId of message m
EchoesCallback(f, m) ==
    /\ HasField(f, "_callbackId")
    /\ Field(f, "_callbackId") = Get(m, "_callbackId")

\* C17 as stated, for the requests that have intermediate frames: every
\* frame written for a generate or chat request that carries a _callbackId,
\* progress and agent_event frames included, echoes that _callbackId.
C17_EveryFrameEchoesCallback ==
    LET rq == Request
        w == Written
    IN  ((RequestIs(rq, "generate") \/ RequestIs(rq, "chat"))
           /\ HasKey(rq.val, "_callbackId")) =>
            \A i \in 1..Len(w) : EchoesCallback(w[i], rq.val)

ResponseTypes ==
    {"status", "complete", "error", "progress", "agent_event", "chat_response"}

EventTypes == {"text", "thinking", "tool_use", "tool_result", "done", "error"}

\* C18: every frame written has a type of the response vocabulary, and
\* every agent_event frame has an event_type of the event vocabulary.
C18_ClosedVocabulary ==
    LET w == Written
    IN  \A i \in 1..Len(w) :
            /\ \E t \in ResponseTypes : IsType(w[i], t)
            /\ IsType(w[i], "agent_event") =>
                  \E e \in EventTypes : IsWord(Field(w[i], "event_type"), e)

\* C18 witness: a chat iteration is over whose frames are a tool_use event,
\* a done event and the chat_response
C18_Witness ==
    LET w == Written
    IN  /\ IterationOver
        /\ Len(w) = 3
        /\ IsWord(Field(w[1], "event_type"), "tool_use")
        /\ IsWord(Field(w[2], "event_type"), "done")
        /\ IsType(w[3], "chat_response")

RECURSIVE FramesFor(_)

\* the bytes send_message writes for the messages of a sequence, in order
FramesFor(objects) ==
    IF objects = <<>> THEN <<>>
    ELSE send_message_bytes(Head(objects)) \o FramesFor(Tail(objects))

NewFrames == FramesOf(Drop(stdout', Len(stdout)))

\* run_host leaves _run_async only by sending the response of a coroutine
\* that has finished
ReturnsBeforeNextRead ==
    pc = "run_async" =>
        LET new == NewFrames
        IN  \/ /\ pc' = "run_async"
               /\ lastRead' = lastRead
               /\ \A i \in 1..Len(new) : ~IsTerminal(new[i])
            \/ /\ pc' = "loop"
               /\ co.state = "done"
               /\ lastRead' = lastRead
               /\ Len(new) = 1
               /\ IsTerminal(new[1])

\* end of stream is observed only by a read at the top of the loop
ClosedOnlyFromRead == pc' = "closed" => pc \in {"read", "closed"}

\* C20: (a) once stdin is closed the host eventually terminates, given that
\* it keeps running and every handler returns; (b) while a handler runs,
\* the closing of stdin is not observed: the host passes from the handler
\* to the next read only by writing the terminal response of the finished
\* coroutine, and stops only from a read; (c) as long as the coroutine has
\* not finished, the host stays in _run_async, reads nothing and writes no
\* terminal response.
C20_TerminatesAfterClose ==
    /\ stdinClosed ~> (pc = "closed")
    /\ [][ReturnsBeforeNextRead /\ ClosedOnlyFromRead]_vars
    /\ []((pc = "run_async" /\ co.state # "done") => ~ENABLED RunAsyncReturns)

\* C20 witness: stdin has been closed while the agent of a chat request is
\* suspended after its first event
C20_Witness ==
    /\ stdinClosed
    /\ pc = "run_async"
    /\ co.state = "chat_stream"
    /\ Len(produced) = 1

\* the text an event frame f shows for block: the content of a thinking
\* event, the output of a tool_result event
ShownText(f, block) ==
    IF block.b = "ThinkingBlock" THEN Field(f, "content") ELSE Field(f, "output")

\* text as the claim says it is sent under a limit of n characters
CutWithEllipsis(text, n) ==
    IF Len(text) > n THEN SubSeq(text, 1, n) \o <<"...">> ELSE text

\* C21 as stated: the content of a thinking event and the output of a
\* tool_result event are the first 500 characters of the text followed by
\* "..." when the text is longer than 500 characters, and the text itself
\* when it has 500 characters or fewer.
C21_LongTextCutAt500 ==
    LET w == Written
    IN  \A i \in 1..Len(produced) :
            produced[i].b \in {"ThinkingBlock", "ToolResultBlock"} =>
                /\ i <= Len(w)
                /\ ShownText(w[i], produced[i])
                     = Str(CutWithEllipsis(produced[i].text, 500))

\* C22 as stated: the command of a tool_use event for Bash is the first 200
\* characters of the command followed by an ellipsis when the command is
\* longer than 200 characters, and the command itself otherwise.
C22_BashCommandCutAt200 ==
    LET w == Written
    IN  \A i \in 1..Len(produced) :
            (produced[i].b = "ToolUseBlock" /\ produced[i].name = "Bash") =>
                /\ i <= Len(w)
                /\ Field(Field(w[i], "tool_input"), "command")
                     = Str(CutWithEllipsis(Get(produced[i].input, "command").v, 200))

\* how many of the frames are terminal responses
TerminalCount(frames) == Cardinality({i \in 1..Len(frames) : IsTerminal(frames[i])})

\* C23 as stated: once run_host is done with a whole frame it has read,
\* exactly one terminal response has been written for it, and none while
\* the request is still being served.
C23_ExactlyOneTerminal ==
    LET w == Written
    IN  /\ (FrameRead /\ pc \in {"loop", "closed"}) => TerminalCount(w) = 1
        /\ (FrameRead /\ pc \in {"dispatch", "run_async"}) => TerminalCount(w) = 0

\* a step changes current_run_id only when it completes a saveHar or ends
\* the stream of a chat with the chat_response
ChangedBySuccess ==
    current_run_id' # current_run_id =>
        \/ /\ pc = "dispatch"
           /\ handle_message(message) = "handle_save_har"
           /\ IsType(Last(FramesOf(stdout')), "complete")
        \/ /\ co.kind = "chat"
           /\ co'.state = "done"
           /\ IsType(co'.result, "chat_response")

\* C24 as stated: current_run_id changes only in a request that ends in
\* success, so status, unknown, malformed and failing requests leave it as
\* it was; and once it holds a run id it never becomes empty again.
C24_FailureKeepsCurrentRun ==
    [][ /\ ChangedBySuccess
        /\ Truthy(current_run_id) => Truthy(current_run_id') ]_vars

\* the run id request m is about when the session holds session
RunOf(m, session) ==
    LET explicit == Get(m, "run_id")
    IN  IF Truthy(explicit) THEN explicit ELSE session

\* the reading rq of a whole frame is a request the host rejects before it
\* starts the engine or the agent
Rejected(rq) ==
    /\ FrameRead
    /\ \/ rq.exc # ""
       \/ ObjectRead(rq) /\ handle_message(rq.val) = "unknown"
       \/ /\ RequestIs(rq, "saveHar")
          /\ ~Truthy(Get(rq.val, "run_id")) \/ ~Truthy(Get(rq.val, "har"))
       \/ /\ RequestIs(rq, "generate")
          /\ LET run == RunOf(rq.val, current_run_id)
             IN  ~Truthy(run) \/ run.v \notin store
       \/ /\ RequestIs(rq, "chat")
          /\ LET run == RunOf(rq.val, current_run_id)
             IN  \/ ~Truthy(Get(rq.val, "message"))
                 \/ ~Truthy(run)
                 \/ run.v \notin store

RECURSIVE PercentsOf(_)

PercentsOf(frames) ==
    IF frames = <<>> THEN <<>>
    ELSE (IF IsType(Head(frames), "progress")
          THEN <<Field(Head(frames), "percent")>> ELSE <<>>)
         \o PercentsOf(Tail(frames))

ProgressSteps == <<Num("10"), Num("30"), Num("100")>>

\* C26: in a generate request the percents written so far are a prefix of
\* 10, 30, 100 and every frame before the terminal response is a progress
\* frame; 100 has been written only if analyze_and_generate has returned;
\* when it raised, the frames are progress 10, progress 30 and the terminal
\* error response, nothing else.
C26_ProgressOrder ==
    LET rq == Request
        w == Written
        percents == PercentsOf(w)
    IN  RequestIs(rq, "generate") =>
            /\ Len(percents) <= 3
            /\ percents = SubSeq(ProgressSteps, 1, Len(percents))
            /\ \A i \in 1..Len(w) : IsType(w[i], "progress") \/ i = Len(w)
            /\ Len(percents) = 3 => co.outcome \in EngineResults
            /\ co.outcome \in EngineResults => Len(percents) = 3
            /\ co.outcome = "raised" => percents = <<Num("10"), Num("30")>>
            /\ (co.outcome = "raised" /\ pc = "loop") =>
                  (Len(w) = 3 /\ IsType(w[3], "error"))

\* C26 witness: the engine of a generate request raised and the iteration
\* is over with three frames written
C26_Witness ==
    /\ IterationOver
    /\ RequestIs(Request, "generate")
    /\ co.outcome = "raised"
    /\ Len(Written) = 3

\* the stream of the agent of the chat request of this iteration ended
\* without raising
StreamEnded == co.kind = "chat" /\ co.outcome = "ended"

\* C27: when the stream of a chat request ends without raising, the
\* terminal frame is a chat_response, current_run_id is the run of the
\* request, and the is_error flag of a ResultMessage appears in the
\* is_error field of its done event and nowhere in the chat_response.
C27_EndedStreamIsChatResponse ==
    LET rq == Request
        w == Written
    IN  /\ StreamEnded =>
              /\ current_run_id = RunOf(co.msg, current_run_id)
              /\ current_run_id = co.run_id
              /\ IsType(co.result, "chat_response")
        /\ (StreamEnded /\ IterationOver) =>
              /\ Len(w) = Len(produced) + 1
              /\ IsType(Last(w), "chat_response")
              /\ ~HasField(Last(w), "is_error")
              /\ \A i \in 1..Len(produced) :
                    produced[i].b = "ResultMessage" =>
                        /\ IsWord(Field(w[i], "event_type"), "done")
                        /\ Field(w[i], "is_error") = produced[i].is_error

\* C27 witness: a chat whose ResultMessage was flagged is_error has ended
\* with a chat_response
C27_Witness ==
    /\ StreamEnded
    /\ IterationOver
    /\ Len(produced) = 2
    /\ produced[2] = ResultMessage(True)
    /\ IsType(Last(Written), "chat_response")

IsTextEvent(f) ==
    IsType(f, "agent_event") /\ IsWord(Field(f, "event_type"), "text")

RECURSIVE StreamedText(_)

\* the contents of the text events among frames, joined in the order of the
\* frames
StreamedText(frames) ==
    IF frames = <<>> THEN <<>>
    ELSE (IF IsTextEvent(frames[1]) /\ Field(frames[1], "content").t = "str"
          THEN Field(frames[1], "content").v ELSE <<>>)
         \o StreamedText(Tail(frames))

RECURSIVE TextsOf(_)

\* the texts of the TextBlocks among blocks, joined in order
TextsOf(blocks) ==
    IF blocks = <<>> THEN <<>>
    ELSE (IF blocks[1].b = "TextBlock" THEN blocks[1].text ELSE <<>>)
         \o TextsOf(Tail(blocks))

Placeholders(f) ==
    /\ Field(f, "message") = W("Task completed.")
    /\ Field(f, "content") = W("I've processed your request.")

Carries(f, text) ==
    /\ Field(f, "message") = Str(text)
    /\ Field(f, "content") = Str(text)

\* C28 as stated: the message and content of a chat_response are the
\* contents of the text events of the request joined in order, no text
\* being cut, and the placeholders when no text event was written.
C28_ResponseIsStreamedText ==
    LET w == Written
    IN  (StreamEnded /\ IterationOver) =>
            /\ IsType(Last(w), "chat_response")
            /\ StreamedText(w) = TextsOf(produced)
            /\ IF \E i \in 1..Len(w) : IsTextEvent(w[i])
               THEN Carries(Last(w), StreamedText(w))
               ELSE Placeholders(Last(w))

\* C28 amended: the message and content of a chat_response are the contents
\* of the text events of the request joined in order, no text being cut,
\* when that joined text is not empty; they are the placeholders when it is
\* empty, which it is when no text event was written and also when every
\* text event written has an empty content.
C28_ResponseIsStreamedTextOrPlaceholder ==
    LET w == Written
        text == StreamedText(w)
    IN  (StreamEnded /\ IterationOver) =>
            /\ IsType(Last(w), "chat_response")
            /\ text = TextsOf(produced)
            /\ IF text # <<>>
               THEN Carries(Last(w), text)
               ELSE Placeholders(Last(w))

\* C28 witness: a chat_response carries the text of two text events, one
\* of them longer than the limit of the other branches
C28_Witness ==
    LET w == Written
    IN  /\ StreamEnded
        /\ IterationOver
        /\ Len(w) = 3
        /\ IsTextEvent(w[1])
        /\ IsTextEvent(w[2])
        /\ Field(w[1], "content") = W("b")
        /\ Len(Field(w[2], "content").v) > ThinkingLimit
        /\ Carries(w[3], <<"b">> \o LongText(ThinkingLimit + 1))

\* a value that counts: an int, a float, or a bool, which Python adds as
\* 0 or 1
Numeric(value) == value.t \in {"int", "float", "bool"}

\* the number msg reports under the str key k, 0 when it reports none
ReportedBy(msg, k) ==
    IF msg.has_usage /\ msg.usage_is_dict
    THEN LET hits == { i \in 1..Len(msg.items) :
                         msg.items[i][1] = k /\ Numeric(msg.items[i][2]) }
         IN  IF hits = {} THEN 0 ELSE msg.items[CHOOSE i \in hits : TRUE][2].n
    ELSE 0

ReportsNumber(msg, k) ==
    /\ msg.has_usage
    /\ msg.usage_is_dict
    /\ \E i \in 1..Len(msg.items) : msg.items[i][1] = k /\ Numeric(msg.items[i][2])

RECURSIVE Reported(_, _)

\* the sum of the numbers msgs report under k
Reported(k, msgs) ==
    IF msgs = <<>> THEN 0 ELSE ReportedBy(msgs[1], k) + Reported(k, Tail(msgs))

StrKeys == {input_tokens, output_tokens, service_tier}

HasTotal(meta, k) == \E i \in 1..Len(meta) : meta[i][1] = k

Total(meta, k) == meta[CHOOSE i \in 1..Len(meta) : meta[i][1] = k][2]

\* every total is the sum of the numbers reported so far under its key,
\* and only str keys with a number reported have a total
TotalsAreSums ==
    /\ \A i \in 1..Len(usage_metadata) :
          /\ usage_metadata[i][1] \in StrKeys
          /\ Numeric(usage_metadata[i][2])
          /\ \A j \in 1..Len(usage_metadata) :
                usage_metadata[j][1] = usage_metadata[i][1] => j = i
    /\ \A k \in StrKeys :
          IF \E i \in 1..Len(produced) : ReportsNumber(produced[i], k)
          THEN /\ HasTotal(usage_metadata, k)
               /\ Total(usage_metadata, k).n = Reported(k, produced)
          ELSE ~HasTotal(usage_metadata, k)

\* a step removes no total and lowers none
TotalsNeverDecrease ==
    \A k \in StrKeys :
        HasTotal(usage_metadata, k) =>
            /\ HasTotal(usage_metadata', k)
            /\ Total(usage_metadata', k).n >= Total(usage_metadata, k).n

\* a step in which a message arrives that reports no number under a str key
\* leaves the totals as they are
NonNumericChangesNothing ==
    (/\ Len(produced') = Len(produced) + 1
     /\ \A k \in StrKeys : ~ReportsNumber(Last(produced'), k))
        => usage_metadata' = usage_metadata

\* C29: after any sequence of agent messages usage_metadata[k] is the sum
\* of the numeric values reported under the str key k; an entry whose value
\* is not numeric, or whose key is not a str, changes nothing; totals are
\* never lowered and never removed.
C29_UsageTotals ==
    /\ []TotalsAreSums
    /\ [][TotalsNeverDecrease /\ NonNumericChangesNothing]_vars

\* C29 witness: three messages were received, input_tokens was reported as
\* an int, as a bool and as a value that is no number, output_tokens as a
\* float, and both have their totals
C29_Witness ==
    /\ pc = "agent_success"
    /\ Len(produced) = 3
    /\ \E i, j, l \in 1..3 :
          /\ \E e \in 1..Len(produced[i].items) :
                produced[i].items[e] = <<input_tokens, UsageValue("bool", 1)>>
          /\ \E e \in 1..Len(produced[j].items) :
                produced[j].items[e] = <<input_tokens, UsageValue("NoneType", 0)>>
          /\ \E e \in 1..Len(produced[l].items) :
                produced[l].items[e] = <<input_tokens, UsageValue("int", 2)>>
    /\ HasTotal(usage_metadata, input_tokens)
    /\ Total(usage_metadata, input_tokens).n = 3
    /\ HasTotal(usage_metadata, output_tokens)
    /\ Total(usage_metadata, output_tokens).n = 1

\* C30: get_actions returns the actions in the order add_action was given
\* them; load of a path that save has written returns without raising a
\* recorder whose actions equal the saved ones, in the same order; load of
\* a path that does not exist returns an empty recorder.
C30_SaveLoadRoundTrip ==
    /\ actions = produced
    /\ call_result.op = "get_actions" => call_result.actions = produced
    /\ call_result.op = "load" =>
          /\ call_result.exc = ""
          /\ call_result.actions =
                (IF call_result.file.exists THEN call_result.file.saved ELSE <<>>)

====
